---- MODULE Spec2Model ----
(***************************************************************************)
(* The job dispatch / completion rendezvous of app/engine/objects.py:      *)
(* the class-level registry Job.job_wakeup_events, Job._get_job_event,     *)
(* Job.wakeup_job, the coroutine Job.wait_till_completed and the result    *)
(* views built by rat_result / update_rats / host_command_result.          *)
(*                                                                         *)
(* Scheduling: one asyncio event loop.  Code between two awaits runs       *)
(* without interleaving, so every action below is one such run.  The only  *)
(* await of the file is asyncio.wait_for(event.wait(), timeout=10).        *)
(***************************************************************************)
EXTENDS Integers, Sequences, FiniteSets, TLC

VARIABLES
    db,                 \* the persisted Job collection: ObjectId -> [status, action, agent],
                        \* with the time a terminal status was written (wtime)
    job_wakeup_events,  \* Job.job_wakeup_events: str -> asyncio.Event (a heap address)
    events,             \* the heap of asyncio.Event objects: address -> its flag
    jobs,               \* the Job instances in memory
    wt,                 \* the tasks running wait_till_completed
    view,               \* what the last result extraction call gave its caller
    handed,             \* history: every (key, event) _get_job_event has returned
    notified,           \* history: the keys wakeup_job has been called for
    latched,            \* history: the keys wakeup_job has been called for after
                        \* the job stored under that id was 'success' or 'failed'
    removed,            \* the Job documents deleted from the collection
    operation,          \* the Operation that references the jobs
    now                 \* the event loop's clock

vars == <<db, job_wakeup_events, events, jobs, wt, view, handed, notified, latched,
          removed, operation, now>>

\* ------------------------------------------------------------------ bounds
MaxJobs    == 1     \* Job documents the storage layer holds
MaxIds     == 2     \* job ids callers of the class methods know of
NumObjs    == 2     \* Job instances in memory
NumWaiters == 2     \* concurrent wait_till_completed tasks
NumTimed   == 1     \* of them, the tasks that run under the timed specification
MaxTime    == 31    \* the clock stops here (timed specification only)

\* timeout=10 of asyncio.wait_for, in clock units
Timeout == 10

Oids    == 1..MaxJobs
Objs    == 1..NumObjs
Waiters == 1..NumWaiters

\* ------------------------------------------------------------ job ids
None == [t |-> "None"]
ObjectId(n) == [t |-> "ObjectId", oid |-> n]
StrId(s) == [t |-> "str", s |-> s]

\* str(job_id) for the three kinds of value a job id takes
str(job_id) ==
    CASE job_id.t = "str" -> job_id.s
      [] job_id.t = "ObjectId" -> ToString(job_id.oid)
      [] job_id.t = "None" -> "None"

\* the ids callers pass to the class methods: a bson.ObjectId or its string
RawIds == {ObjectId(n) : n \in 1..MaxIds} \cup {StrId(ToString(n)) : n \in 1..MaxIds}

\* --------------------------------------------------------- action payloads
EmptyDict == [k \in {} |-> 0]

Agents == {"agent1", "agent2"}
HostOf(agent) == IF agent = "agent1" THEN "host1" ELSE "host2"

\* create_rat_command: {'rats': {hostname, name, function, parameters}}
RatAction ==
    [rats |-> [hostname |-> "host1", name |-> 7, function |-> "f", parameters |-> "params"]]
\* create_agent_command: {command: kwargs}
ExecAction   == [execute |-> [command_line |-> "whoami"]]
ExecNoCmd    == [execute |-> EmptyDict]
ShellAction  == [open_shell |-> EmptyDict]
AgentActions == {ExecAction, ExecNoCmd, ShellAction}

StatusValues == {"created", "pending", "success", "failed", "failure"}
ErrorValues  == {"no client", "agents exception", "disk full"}

\* dict.update: the keys of new replace those of old
Update(old, new) == new @@ old
Has(d, k) == k \in DOMAIN d

\* ------------------------------------------------------------ exceptions
Return(v) == [kind |-> "return", value |-> v]
Raise(cls, args) == [kind |-> "raise", cls |-> cls, args |-> args]
KeyError(k) == Raise("KeyError", <<k>>)
NoOutcome == [kind |-> "none"]

\* ------------------------------------------------------------- registry
\* Job._get_job_event on registry reg and heap: the registry and heap after
\* the call and the event returned.  asyncio.Event() starts unset.
\* as _get_job_event, without the membership test: a fresh event every call
_get_job_event_fresh(reg, heap, job_id) ==
    LET k == str(job_id)
        e == Len(heap) + 1
    IN [reg |-> (k :> e) @@ reg, heap |-> Append(heap, FALSE), e |-> e]

_get_job_event(reg, heap, job_id) ==
    LET k == str(job_id) IN
    IF k \in DOMAIN reg
    THEN [reg |-> reg, heap |-> heap, e |-> reg[k]]
    ELSE LET e == Len(heap) + 1 IN
         [reg |-> reg @@ (k :> e), heap |-> Append(heap, FALSE), e |-> e]

\* Event.set() on the heap
EventSet(heap, e) == [heap EXCEPT ![e] = TRUE]
\* Event.clear() on the heap
EventClear(heap, e) == [heap EXCEPT ![e] = FALSE]

\* as wakeup_job, without event.set()
wakeup_job_no_set(reg, heap, job_id) ==
    LET r == _get_job_event(reg, heap, StrId(str(job_id))) IN
    [reg |-> r.reg, heap |-> r.heap, e |-> r.e]

\* as wakeup_job, setting every event of the heap
wakeup_job_all(reg, heap, job_id) ==
    LET r == _get_job_event(reg, heap, StrId(str(job_id))) IN
    [reg |-> r.reg, heap |-> [e \in DOMAIN r.heap |-> TRUE], e |-> r.e]

\* Job.wakeup_job on registry reg and heap
wakeup_job(reg, heap, job_id) ==
    LET r == _get_job_event(reg, heap, StrId(str(job_id))) IN
    [reg |-> r.reg, heap |-> EventSet(r.heap, r.e), e |-> r.e]

\* ----------------------------------------------------------------- state
FreeJob ==
    [alive |-> FALSE, id |-> None, status |-> "", action |-> EmptyDict,
     agent |-> "", event |-> 0]

IdleWaiter ==
    [pc |-> "idle", job |-> 0, event |-> 0, deadline |-> 0, outcome |-> NoOutcome,
     startStatus |-> "", presignaled |-> FALSE, lastRead |-> "",
     t0 |-> 0, tRead |-> 0]

\* RatCommand(): None, '' and {} are written "None", "" and "{}"
RatCommand ==
    [host |-> "None", status |-> "", function |-> "", parameters |-> "{}",
     outputs |-> "{}", agent |-> "None"]

\* HostCommand()
HostCommand == [command_line |-> "", output |-> "", status |-> "", host |-> "None"]

\* view: the call, the instance it ran on and that instance before the call, the
\* RatCommand passed in (update_rats) and as the call left it, and the outcome
NoView ==
    [call |-> "none", job |-> 0, self |-> FreeJob, arg |-> RatCommand,
     ivc |-> RatCommand, outcome |-> NoOutcome]

\* no Operation yet; once there is one: whether its document and its log are
\* stored, its jobs list (each item the id referenced and what the item holds:
\* "ref" for a reference not yet dereferenced, or the status of the Job
\* instance in its place), and the outcome of delete()
NoOperation ==
    [state |-> "none", log |-> "none", jobs |-> << >>, outcome |-> NoOutcome]

Init ==
    /\ db = << >>
    /\ job_wakeup_events = EmptyDict
    /\ events = << >>
    /\ jobs = [o \in Objs |-> FreeJob]
    /\ wt = [w \in Waiters |-> IdleWaiter]
    /\ view = NoView
    /\ handed = {}
    /\ notified = {}
    /\ latched = {}
    /\ removed = {}
    /\ operation = NoOperation
    /\ now = 0

\* ---------------------------------------------------------- construction
\* Job(**fields): Document.__init__ sets the fields, then the event is looked up
\* under str(self.id)
\* as Job__init__, without the lookup of the event: nothing is registered
Job__init___unregistered(reg, heap, id, status, action, agent) ==
    [reg |-> reg, heap |-> heap, e |-> 0,
     job |-> [alive |-> TRUE, id |-> id, status |-> status, action |-> action,
              agent |-> agent, event |-> 0]]

Job__init__(reg, heap, id, status, action, agent) ==
    LET r == _get_job_event(reg, heap, id) IN
    [reg |-> r.reg, heap |-> r.heap, e |-> r.e,
     job |-> [alive |-> TRUE, id |-> id, status |-> status, action |-> action,
              agent |-> agent, event |-> r.e]]

\* Job(action=..., agent=...).save(): the instance is built with no id (and
\* status 'created', the field's default), then save() inserts it and sets the id
\* the first free slot: which free slot an instance takes makes no difference
FirstFree(o) == ~jobs[o].alive /\ \A p \in Objs : p < o => jobs[p].alive

CreateJob(o, action, agent) ==
    /\ FirstFree(o)
    /\ Len(db) < MaxJobs
    /\ LET n == Len(db) + 1
           c == Job__init__(job_wakeup_events, events, None, "created", action, agent)
       IN /\ job_wakeup_events' = c.reg
          /\ events' = c.heap
          /\ handed' = handed \cup {<<str(None), c.e>>}
          /\ jobs' = [jobs EXCEPT ![o] = [c.job EXCEPT !.id = ObjectId(n)]]
          /\ db' = Append(db, [status |-> "created", action |-> action, agent |-> agent,
                            wtime |-> 0])
    /\ UNCHANGED <<wt, view, notified, latched, removed, operation, now>>

create_rat_command(o) == CreateJob(o, RatAction, "agent1")

create_agent_command(o, kwargs) == CreateJob(o, kwargs, "agent2")

\* a Job instance built by the storage layer from the stored document n
LoadJob(o, n) ==
    /\ FirstFree(o)
    /\ n \in DOMAIN db
    /\ LET c == Job__init__(job_wakeup_events, events, ObjectId(n),
                            db[n].status, db[n].action, db[n].agent)
       IN /\ job_wakeup_events' = c.reg
          /\ events' = c.heap
          /\ handed' = handed \cup {<<str(ObjectId(n)), c.e>>}
          /\ jobs' = [jobs EXCEPT ![o] = c.job]
    /\ UNCHANGED <<db, wt, view, notified, latched, removed, operation, now>>

\* a direct call of Job._get_job_event(job_id)
GetJobEvent(job_id) ==
    /\ LET r == _get_job_event(job_wakeup_events, events, job_id) IN
          /\ job_wakeup_events' = r.reg
          /\ events' = r.heap
          /\ handed' = handed \cup {<<str(job_id), r.e>>}
    /\ UNCHANGED <<db, jobs, wt, view, notified, latched, removed, operation, now>>

\* a call of Job.wakeup_job(job_id): Event.set() resolves the future of every
\* task blocked in event.wait()
WakeupJob(job_id) ==
    /\ LET r == wakeup_job(job_wakeup_events, events, job_id) IN
          /\ job_wakeup_events' = r.reg
          /\ events' = r.heap
          /\ handed' = handed \cup {<<str(job_id), r.e>>}
          /\ wt' = [w \in Waiters |->
                      IF wt[w].pc = "blocked" /\ wt[w].event = r.e
                      THEN [wt[w] EXCEPT !.pc = "woken"] ELSE wt[w]]
    /\ notified' = notified \cup {str(job_id)}
    /\ latched' = IF \E n \in DOMAIN db : /\ str(ObjectId(n)) = str(job_id)
                                          /\ db[n].status \in {"success", "failed"}
                  THEN latched \cup {str(job_id)} ELSE latched
    /\ UNCHANGED <<db, jobs, view, removed, operation, now>>

\* ------------------------------------------------------ external handler
\* The API handler's write of a job document: created -> pending ->
\* success | failed, the completed action carrying 'result', or 'error' (and
\* 'exception' with "agents exception"); 'failure' is the spelling the first
\* test of wait_till_completed also accepts.
Completed(status, action) ==
    CASE status = "pending" -> {action}
      [] status = "success" -> {Update(action, [result |-> "ok"])}
      [] status = "failure" -> {Update(action, [error |-> "no client"])}
      [] status = "failed"  ->
            {Update(action, IF err = "agents exception"
                            THEN [error |-> err, exception |-> "boom"]
                            ELSE [error |-> err]) : err \in ErrorValues}

ExternalUpdate(n, status) ==
    /\ n \in DOMAIN db
    /\ \/ db[n].status = "created" /\ status \in {"pending", "success", "failed", "failure"}
       \/ db[n].status = "pending" /\ status \in {"success", "failed", "failure"}
    /\ \E a \in Completed(status, db[n].action) :
          db' = [db EXCEPT ![n] = [@ EXCEPT !.status = status, !.action = a,
                                 !.wtime = IF status \in {"success", "failed"} THEN now ELSE @]]
    /\ UNCHANGED <<job_wakeup_events, events, jobs, wt, view, handed, notified, latched, removed, operation, now>>

\* ------------------------------------------------- wait_till_completed
\* as wait_for_deadline, with the timeout doubled
wait_for_deadline_late(t) == t + 2 * Timeout

\* asyncio.wait_for(..., timeout=10) called at time t: when its timer is due
wait_for_deadline(t) == t + Timeout

\* as reload, reading nothing: the instance keeps what it held
reload_nothing(job) == job

\* the first test of the coroutine
FastExit(job) == job.status \in {"success", "failure"}

\* as reload, of 'status' alone
reload_status_only(job) == [job EXCEPT !.status = db[job.id.oid].status]

\* as reload, of 'action' alone
reload_action_only(job) == [job EXCEPT !.action = db[job.id.oid].action]

\* Document.reload('status', 'action')
reload(job) ==
    [job EXCEPT !.status = db[job.id.oid].status, !.action = db[job.id.oid].action]

\* as Format, with the argument left out of the message
Format_text_only(text, arg) == <<text>>

\* str.format of the message with one argument: the text, then the argument
Format(text, arg) == <<text, arg>>

\* as Classify, with the two recognised error strings misspelt
Classify_misspelt(job, o) ==
    IF job.status = "success" THEN Return(None)
    ELSE IF job.status = "failed" THEN
        IF ~Has(job.action, "error") THEN KeyError("error")
        ELSE IF job.action.error = "no_client" THEN
            Raise("JobException",
                  <<"NoRatError", "Job failed because the rat was killed", o>>)
        ELSE IF job.action.error = "agent exception" THEN
            IF ~Has(job.action, "exception") THEN KeyError("exception")
            ELSE Raise("JobException", <<"AgentExceptionError", job.action.exception, o>>)
        ELSE Raise("JobException",
                   <<Format("The action.error field in the job was not recognized: {}",
                            job.action.error)>>)
    ELSE [kind |-> "continue"]

\* the if / elif / else after the reload, on the Job instance o holding job
Classify(job, o) ==
    IF job.status = "success" THEN Return(None)
    ELSE IF job.status = "failed" THEN
        IF ~Has(job.action, "error") THEN KeyError("error")
        ELSE IF job.action.error = "no client" THEN
            Raise("JobException",
                  <<"NoRatError", "Job failed because the rat was killed", o>>)
        ELSE IF job.action.error = "agents exception" THEN
            IF ~Has(job.action, "exception") THEN KeyError("exception")
            ELSE Raise("JobException", <<"AgentExceptionError", job.action.exception, o>>)
        ELSE Raise("JobException",
                   <<Format("The action.error field in the job was not recognized: {}",
                            job.action.error)>>)
    ELSE [kind |-> "continue"]

\* the call, up to the first await: the fast exit, or the event is looked up and
\* asyncio.wait_for(event.wait(), timeout=10) starts its timer and the inner task
WaitStart(w, o) ==
    /\ wt[w].pc = "idle"
    /\ \A v \in Waiters : v < w => wt[v].pc # "idle"
    /\ jobs[o].alive
    /\ IF FastExit(jobs[o])
       THEN /\ wt' = [wt EXCEPT ![w] = [@ EXCEPT !.pc = "done", !.job = o,
                          !.outcome = Return(None), !.startStatus = jobs[o].status,
                          !.t0 = now, !.tRead = now]]
            /\ UNCHANGED <<job_wakeup_events, events, handed>>
       ELSE LET r == _get_job_event(job_wakeup_events, events, jobs[o].id) IN
            /\ job_wakeup_events' = r.reg
            /\ events' = r.heap
            /\ handed' = handed \cup {<<str(jobs[o].id), r.e>>}
            /\ wt' = [wt EXCEPT ![w] = [@ EXCEPT !.pc = "call_wait", !.job = o,
                          !.event = r.e, !.deadline = wait_for_deadline(now),
                          !.startStatus = jobs[o].status,
                          !.presignaled = (str(jobs[o].id) \in notified),
                          !.t0 = now, !.tRead = now]]
    /\ UNCHANGED <<db, jobs, view, notified, latched, removed, operation, now>>

\* the inner task runs event.wait(): it returns at once when the flag is set,
\* and otherwise blocks on a future that Event.set() resolves
EventWait(w) ==
    /\ wt[w].pc = "call_wait"
    /\ wt' = [wt EXCEPT ![w].pc = IF events[wt[w].event] THEN "woken" ELSE "blocked"]
    /\ UNCHANGED <<db, job_wakeup_events, events, jobs, view, handed, notified, latched, removed, operation, now>>

\* as TimeoutFires, for a bare "await event.wait()": there is no timer
TimeoutNever(w) ==
    /\ wt[w].pc \in {}
    /\ UNCHANGED vars

\* as TimeoutFires, with the TimeoutError of wait_for not caught: it ends the call
TimeoutFires_uncaught(w) ==
    /\ wt[w].pc \in {"call_wait", "blocked"}
    /\ wt' = [wt EXCEPT ![w] = [@ EXCEPT !.pc = "done", !.deadline = 0,
                  !.presignaled = FALSE, !.outcome = Raise("TimeoutError", << >>)]]
    /\ UNCHANGED <<db, job_wakeup_events, events, jobs, view, handed, notified, latched, removed, operation, now>>

\* the timer of wait_for fires first: the TimeoutError of wait_for is raised in
\* the coroutine and caught as AsyncTimeoutError (the class imported on line 3 is
\* the one wait_for raises on the interpreters this import was written for)
TimeoutFires(w) ==
    /\ wt[w].pc \in {"call_wait", "blocked"}
    /\ wt' = [wt EXCEPT ![w].pc = "timedout"]
    /\ UNCHANGED <<db, job_wakeup_events, events, jobs, view, handed, notified, latched, removed, operation, now>>

\* as Resume, with event.clear() after the reload in every branch
Resume_clear_always(w) ==
    /\ wt[w].pc \in {"woken", "timedout"}
    /\ LET o == wt[w].job
           j == reload(jobs[o])
           c == Classify(j, o)
       IN /\ jobs' = [jobs EXCEPT ![o] = j]
          /\ events' = EventClear(events, wt[w].event)
          /\ IF c.kind = "continue"
             THEN wt' = [wt EXCEPT ![w] = [@ EXCEPT !.pc = "call_wait",
                                !.deadline = wait_for_deadline(now),
                                !.presignaled = FALSE,
                                !.lastRead = j.status, !.tRead = now]]
             ELSE wt' = [wt EXCEPT ![w] = [@ EXCEPT !.pc = "done", !.outcome = c,
                                !.deadline = 0, !.presignaled = FALSE,
                                !.lastRead = j.status, !.tRead = now]]
    /\ UNCHANGED <<db, job_wakeup_events, view, handed, notified, latched, removed, operation, now>>

\* the coroutine runs again, from the end of the await to the next await or to
\* its end: reload, classification, and clear before the loop starts over
Resume(w) ==
    /\ wt[w].pc \in {"woken", "timedout"}
    /\ LET o == wt[w].job
           j == reload(jobs[o])
           c == Classify(j, o)
       IN /\ jobs' = [jobs EXCEPT ![o] = j]
          /\ IF c.kind = "continue"
             THEN /\ events' = EventClear(events, wt[w].event)
                  /\ wt' = [wt EXCEPT ![w] = [@ EXCEPT !.pc = "call_wait",
                                !.deadline = wait_for_deadline(now),
                                !.presignaled = FALSE,
                                !.lastRead = j.status, !.tRead = now]]
             ELSE /\ events' = events
                  /\ wt' = [wt EXCEPT ![w] = [@ EXCEPT !.pc = "done", !.outcome = c,
                                !.deadline = 0, !.presignaled = FALSE,
                                !.lastRead = j.status, !.tRead = now]]
    /\ UNCHANGED <<db, job_wakeup_events, view, handed, notified, latched, removed, operation, now>>

\* as Abandon, with the key of the job taken out of the registry
Abandon_unregisters(w) ==
    /\ wt[w].pc \in {"call_wait", "blocked", "woken", "timedout"}
    /\ wt' = [wt EXCEPT ![w] = [@ EXCEPT !.pc = "cancelled", !.deadline = 0,
                  !.presignaled = FALSE, !.outcome = Raise("CancelledError", << >>)]]
    /\ job_wakeup_events' =
          [k \in DOMAIN job_wakeup_events \ {str(jobs[wt[w].job].id)} |-> job_wakeup_events[k]]
    /\ UNCHANGED <<db, events, jobs, view, handed, notified, latched, removed, operation, now>>

\* the caller cancels the task during the await: CancelledError is raised at
\* line 198, the except clause of line 199 does not match it, and the call ends
\* there with nothing else run
Abandon(w) ==
    /\ wt[w].pc \in {"call_wait", "blocked", "woken", "timedout"}
    /\ wt' = [wt EXCEPT ![w] = [@ EXCEPT !.pc = "cancelled", !.deadline = 0,
                  !.presignaled = FALSE, !.outcome = Raise("CancelledError", << >>)]]
    /\ UNCHANGED <<db, job_wakeup_events, events, jobs, view, handed, notified, latched, removed, operation, now>>

\* ---------------------------------------------------- result extraction
\* as update_rats, with 'failed' missing from the statuses that pass
update_rats_failed_unhandled(job, ivc) ==
    LET ivc1 == [ivc EXCEPT !.status = job.status] IN
    IF job.status = "success" THEN
        IF Has(job.action, "result")
        THEN [ivc |-> [ivc1 EXCEPT !.outputs = job.action.result], outcome |-> Return(None)]
        ELSE [ivc |-> ivc1, outcome |-> KeyError("result")]
    ELSE IF job.status \in {"pending", "created"} THEN
        [ivc |-> ivc1, outcome |-> Return(None)]
    ELSE [ivc |-> ivc1, outcome |-> Raise("CaseException", << >>)]

\* Job.update_rats(ivc): the RatCommand as the call leaves it, and the outcome
update_rats(job, ivc) ==
    LET ivc1 == [ivc EXCEPT !.status = job.status] IN
    IF job.status = "success" THEN
        IF Has(job.action, "result")
        THEN [ivc |-> [ivc1 EXCEPT !.outputs = job.action.result], outcome |-> Return(None)]
        ELSE [ivc |-> ivc1, outcome |-> KeyError("result")]
    ELSE IF job.status \in {"pending", "created", "failed"} THEN
        [ivc |-> ivc1, outcome |-> Return(None)]
    ELSE [ivc |-> ivc1, outcome |-> Raise("CaseException", << >>)]

\* Job.rat_result(): the subscript of line 234 comes before the test of line 235
rat_result(job) ==
    IF ~Has(job.action, "rats") THEN KeyError("rats")
    ELSE IF ~Has(job.action.rats, "parameters") THEN KeyError("parameters")
    ELSE
        LET ivc == [RatCommand EXCEPT !.agent = job.agent, !.host = HostOf(job.agent),
                                      !.parameters = job.action.rats.parameters]
        IN IF Has(job.action, "rats")
           THEN LET u == update_rats(job, ivc) IN
                IF u.outcome.kind = "raise" THEN u.outcome ELSE Return(u.ivc)
           ELSE Raise("Exception", <<"Getting rat result on non-rat job">>)

\* as host_command_result, without the try / except around the subscript
host_command_result_no_try(job) ==
    LET hc1 == [HostCommand EXCEPT !.status = job.status, !.host = HostOf(job.agent)] IN
    IF ~Has(job.action, "execute") THEN KeyError("execute")
    ELSE IF ~Has(job.action.execute, "command_line") THEN KeyError("command_line")
    ELSE LET hc2 == [hc1 EXCEPT !.command_line = job.action.execute.command_line] IN
         IF job.status = "success"
         THEN IF Has(job.action, "result")
              THEN Return([hc2 EXCEPT !.output = job.action.result])
              ELSE KeyError("result")
         ELSE Return(hc2)

\* Job.host_command_result()
host_command_result(job) ==
    LET hc1 == [HostCommand EXCEPT !.status = job.status, !.host = HostOf(job.agent)]
        hc2 == IF Has(job.action, "execute") /\ Has(job.action.execute, "command_line")
               THEN [hc1 EXCEPT !.command_line = job.action.execute.command_line]
               ELSE hc1
    IN IF job.status = "success"
       THEN IF Has(job.action, "result")
            THEN Return([hc2 EXCEPT !.output = job.action.result])
            ELSE KeyError("result")
       ELSE Return(hc2)

\* a RatCommand an earlier call has filled
UsedRatCommand ==
    [RatCommand EXCEPT !.status = "pending", !.outputs = "old", !.parameters = "params"]

RatResult(o) ==
    /\ jobs[o].alive
    /\ view' = [call |-> "rat_result", job |-> o, self |-> jobs[o], arg |-> RatCommand,
                ivc |-> RatCommand, outcome |-> rat_result(jobs[o])]
    /\ UNCHANGED <<db, job_wakeup_events, events, jobs, wt, handed, notified, latched, removed, operation, now>>

\* as UpdateRats, with the assignment of line 242 the other way round
UpdateRats_reversed(o, ivc) ==
    /\ jobs[o].alive
    /\ LET u == update_rats(jobs[o], ivc) IN
          view' = [call |-> "update_rats", job |-> o, self |-> jobs[o], arg |-> ivc,
                   ivc |-> u.ivc, outcome |-> u.outcome]
    /\ jobs' = [jobs EXCEPT ![o].status = ivc.status]
    /\ UNCHANGED <<db, job_wakeup_events, events, wt, handed, notified, latched, removed, operation, now>>

UpdateRats(o, ivc) ==
    /\ jobs[o].alive
    /\ LET u == update_rats(jobs[o], ivc) IN
          view' = [call |-> "update_rats", job |-> o, self |-> jobs[o], arg |-> ivc,
                   ivc |-> u.ivc, outcome |-> u.outcome]
    /\ UNCHANGED <<db, job_wakeup_events, events, jobs, wt, handed, notified, latched, removed, operation, now>>

HostCommandResult(o) ==
    /\ jobs[o].alive
    /\ view' = [call |-> "host_command_result", job |-> o, self |-> jobs[o],
                arg |-> RatCommand, ivc |-> RatCommand,
                outcome |-> host_command_result(jobs[o])]
    /\ UNCHANGED <<db, job_wakeup_events, events, jobs, wt, handed, notified, latched, removed, operation, now>>

\* ------------------------------------------------------ Operation.delete
\* an Operation is created and saved: its log is stored, jobs defaults to []
OperationCreate ==
    /\ operation.state = "none"
    /\ operation' = [state |-> "stored", log |-> "stored", jobs |-> << >>,
                     outcome |-> NoOutcome]
    /\ UNCHANGED <<db, job_wakeup_events, events, jobs, wt, view, handed, notified,
                   latched, removed, now>>

\* the ids operation.jobs references
Referred == {operation.jobs[i].oid : i \in DOMAIN operation.jobs}

\* the Job instance o is appended to operation.jobs: the list holds the
\* instance, with the status it has
OperationAddJob(o) ==
    /\ operation.state = "stored"
    /\ operation.outcome = NoOutcome
    /\ jobs[o].alive
    /\ jobs[o].id.oid \notin Referred
    /\ operation' = [operation EXCEPT
                       !.jobs = Append(@, [oid |-> jobs[o].id.oid, held |-> jobs[o].status])]
    /\ UNCHANGED <<db, job_wakeup_events, events, jobs, wt, view, handed, notified,
                   latched, removed, now>>

\* the Operation is fetched from storage again: jobs is a list of references
OperationLoad ==
    /\ operation.state = "stored"
    /\ operation.outcome = NoOutcome
    /\ \E i \in DOMAIN operation.jobs : operation.jobs[i].held # "ref"
    /\ operation' = [operation EXCEPT
                       !.jobs = [i \in DOMAIN @ |-> [@[i] EXCEPT !.held = "ref"]]]
    /\ UNCHANGED <<db, job_wakeup_events, events, jobs, wt, view, handed, notified,
                   latched, removed, now>>

\* reading self.jobs dereferences the list (ListField of ReferenceField): a
\* reference whose document is stored becomes a Job instance with the stored
\* status, built by Job.__init__, which looks its event up; a reference whose
\* document is gone stays a DBRef in the list.  Items i..Len(items) of the list,
\* on registry reg and heap: the list, the registry and the heap afterwards.
RECURSIVE Dereference(_, _, _, _)
Dereference(items, i, reg, heap) ==
    IF i > Len(items) THEN [items |-> items, reg |-> reg, heap |-> heap]
    ELSE LET n == items[i].oid IN
         IF items[i].held # "ref" THEN Dereference(items, i + 1, reg, heap)
         ELSE IF n \in removed
         THEN Dereference([items EXCEPT ![i].held = "dbref"], i + 1, reg, heap)
         ELSE LET c == Job__init__(reg, heap, ObjectId(n), db[n].status, db[n].action,
                                   db[n].agent)
              IN Dereference([items EXCEPT ![i].held = c.job.status], i + 1, c.reg, c.heap)

\* operation.jobs is read somewhere before the delete
OperationJobs ==
    /\ operation.state = "stored"
    /\ operation.outcome = NoOutcome
    /\ \E i \in DOMAIN operation.jobs : operation.jobs[i].held = "ref"
    /\ LET d == Dereference(operation.jobs, 1, job_wakeup_events, events) IN
          /\ operation' = [operation EXCEPT !.jobs = d.items]
          /\ job_wakeup_events' = d.reg
          /\ events' = d.heap
    /\ UNCHANGED <<db, jobs, wt, view, handed, notified, latched, removed, now>>

\* job.delete() called from elsewhere (another Operation that lists the job):
\* the document leaves the collection
JobDelete(n) ==
    /\ n \in DOMAIN db
    /\ n \notin removed
    /\ removed' = removed \cup {n}
    /\ UNCHANGED <<db, job_wakeup_events, events, jobs, wt, view, handed, notified,
                   latched, operation, now>>

\* the Log document of the operation is deleted from elsewhere
LogDelete ==
    /\ operation.state = "stored"
    /\ operation.outcome = NoOutcome
    /\ operation.log = "stored"
    /\ operation' = [operation EXCEPT !.log = "gone"]
    /\ UNCHANGED <<db, job_wakeup_events, events, jobs, wt, view, handed, notified,
                   latched, removed, now>>

\* the handler's write of a job document that is still stored
HandlerUpdate(n, status) ==
    /\ n \notin removed
    /\ ExternalUpdate(n, status)

\* the loop over self.jobs, from item i with the set rem of removed documents:
\* job.status of a Job instance is its field; of a DBRef it raises
\* AttributeError, which the except clause does not name, so the loop and the
\* call end there.  job.delete() of a document already gone deletes nothing.
RECURSIVE DeleteJobs(_, _, _)
DeleteJobs(items, i, rem) ==
    IF i > Len(items) THEN [removed |-> rem, outcome |-> Return(None)]
    ELSE IF items[i].held = "dbref"
    THEN [removed |-> rem, outcome |-> Raise("AttributeError", <<"status">>)]
    ELSE IF items[i].held \in {"success", "failed"}
    THEN DeleteJobs(items, i + 1, rem \cup {items[i].oid})
    ELSE DeleteJobs(items, i + 1, rem)

\* Operation.delete(): the log is deleted (a log already gone raises
\* DoesNotExist at self.log, which is caught), the lists of observed objects are
\* empty, the jobs are gone through, and super().delete() removes the operation
\* if the loop did not raise
OperationDelete ==
    /\ operation.state = "stored"
    /\ operation.outcome = NoOutcome
    /\ LET d == Dereference(operation.jobs, 1, job_wakeup_events, events)
           r == DeleteJobs(d.items, 1, removed)
       IN /\ job_wakeup_events' = d.reg
          /\ events' = d.heap
          /\ removed' = r.removed
          /\ operation' = [state |-> IF r.outcome.kind = "return" THEN "deleted"
                                     ELSE "stored",
                           log |-> "gone", jobs |-> d.items, outcome |-> r.outcome]
    /\ UNCHANGED <<db, jobs, wt, view, handed, notified, latched, now>>

\* ------------------------------------------------------------ the clock
\* a task that can run runs before the clock moves
Runnable(w) == wt[w].pc \in {"call_wait", "woken", "timedout"}

\* the timer of wait_for fires when its delay has passed
TimedTimeout(w) ==
    /\ now >= wt[w].deadline
    /\ TimeoutFires(w)

\* one unit of time passes: nothing is runnable and no timer is due
Tick ==
    /\ now < MaxTime
    /\ \A w \in Waiters : ~Runnable(w)
    /\ \A w \in Waiters : wt[w].pc = "blocked" => now < wt[w].deadline
    /\ now' = now + 1
    /\ UNCHANGED <<db, job_wakeup_events, events, jobs, wt, view, handed, notified, latched, removed, operation>>

\* ------------------------------------------------------- specifications
Next ==
    \/ \E o \in Objs : create_rat_command(o)
    \/ \E o \in Objs, n \in Oids : LoadJob(o, n)
    \/ \E id \in RawIds : GetJobEvent(id)
    \/ \E id \in RawIds : WakeupJob(id)
    \/ \E n \in Oids, s \in StatusValues : ExternalUpdate(n, s)
    \/ \E w \in Waiters, o \in Objs : WaitStart(w, o)
    \/ \E w \in Waiters : EventWait(w)
    \/ \E w \in Waiters : TimeoutFires(w)
    \/ \E w \in Waiters : Resume(w)

Spec == Init /\ [][Next]_vars

\* the rendezvous on the clock of the event loop
NextTimed ==
    \/ \E o \in Objs : create_rat_command(o)
    \/ \E id \in {ObjectId(n) : n \in Oids} : WakeupJob(id)
    \/ \E n \in Oids, s \in StatusValues : ExternalUpdate(n, s)
    \/ \E w \in 1..NumTimed, o \in Objs : WaitStart(w, o)
    \/ \E w \in 1..NumTimed : EventWait(w)
    \/ \E w \in 1..NumTimed : TimedTimeout(w)
    \/ \E w \in 1..NumTimed : Resume(w)
    \/ Tick

SpecTimed == Init /\ [][NextTimed]_vars

\* jobs of both factories, their completion, and the result views
NextResult ==
    \/ \E o \in Objs : create_rat_command(o)
    \/ \E o \in Objs, kwargs \in AgentActions : create_agent_command(o, kwargs)
    \/ \E o \in Objs, n \in Oids : LoadJob(o, n)
    \/ \E id \in RawIds : WakeupJob(id)
    \/ \E n \in Oids, s \in StatusValues : ExternalUpdate(n, s)
    \/ \E o \in Objs : RatResult(o)
    \/ \E o \in Objs, ivc \in {RatCommand, UsedRatCommand} : UpdateRats(o, ivc)
    \/ \E o \in Objs : HostCommandResult(o)

SpecResult == Init /\ [][NextResult]_vars

TypeOK ==
    /\ DOMAIN db \subseteq Oids
    /\ \A k \in DOMAIN job_wakeup_events : job_wakeup_events[k] \in DOMAIN events
    /\ \A w \in Waiters : wt[w].pc \in {"idle", "call_wait", "blocked", "woken", "timedout", "done",
                                        "cancelled"}

\* -------------------------------------------------------------- claims
\* the stored document of the job waiter w waits for
Stored(w) == db[jobs[wt[w].job].id.oid]

NonTerminal == {"created", "pending"}
Terminal    == {"success", "failed"}

\* ------------------------------------------------------------------ C1
Referenced == {p[1] : p \in handed}

\* C1: the registry holds exactly one event per referenced job id (as a
\* string), distinct ids have distinct events, and every event ever handed out
\* for an id is the one the registry holds for it now: all callers for one id got
\* the same object and no entry was replaced.
C1_OneSignalPerJobId ==
    /\ DOMAIN job_wakeup_events = Referenced
    /\ \A p \in handed : job_wakeup_events[p[1]] = p[2]
    /\ \A k1, k2 \in DOMAIN job_wakeup_events :
          job_wakeup_events[k1] = job_wakeup_events[k2] => k1 = k2
    /\ \A o \in Objs : jobs[o].alive => <<str(None), jobs[o].event>> \in handed
                                        \/ <<str(jobs[o].id), jobs[o].event>> \in handed
    /\ \A w \in Waiters : wt[w].event # 0 =>
          job_wakeup_events[str(jobs[wt[w].job].id)] = wt[w].event

\* a waiter, a notifier and a constructor have all referenced job 1, another id is
\* in the registry too, and the waiter holds the event the registry holds
C1_Witness ==
    /\ "1" \in notified
    /\ \E w \in Waiters : wt[w].event # 0 /\ wt[w].event = job_wakeup_events["1"]
    /\ \E o \in Objs : jobs[o].alive /\ jobs[o].event = job_wakeup_events["1"]
    /\ Cardinality(DOMAIN job_wakeup_events) >= 3

\* ------------------------------------------------------------------ C2
\* The event loop runs every ready task and fires every due timer: the inner
\* task of wait_for, the timer of wait_for and the resumed coroutine are each
\* weakly fair.  Nothing is assumed of the notifier.
Fairness ==
    \A w \in Waiters :
        /\ WF_vars(EventWait(w))
        /\ WF_vars(TimeoutFires(w))
        /\ WF_vars(Resume(w))

\* the rendezvous on the stored jobs: the notifier names them by ObjectId
NextLive ==
    \/ \E o \in Objs : create_rat_command(o)
    \/ \E o \in Objs, n \in Oids : LoadJob(o, n)
    \/ \E id \in {ObjectId(n) : n \in Oids} : WakeupJob(id)
    \/ \E n \in Oids, s \in StatusValues : ExternalUpdate(n, s)
    \/ \E w \in Waiters, o \in Objs : WaitStart(w, o)
    \/ \E w \in Waiters : EventWait(w)
    \/ \E w \in Waiters : TimeoutFires(w)
    \/ \E w \in Waiters : Resume(w)

SpecLive == Init /\ [][NextLive]_vars /\ Fairness

\* C2: a wait in progress on a job whose stored status is 'success' or 'failed'
\* (and then stays so) eventually ends, by return or by raise, whether or not
\* wakeup_job is ever called.
C2_WaitEnds ==
    \A w \in Waiters :
        (wt[w].pc \notin {"idle", "done"} /\ Stored(w).status \in Terminal)
            ~> (wt[w].pc = "done")

\* a wait on a job stored terminal ended although nobody ever called wakeup_job
C2_Witness ==
    \E w \in Waiters :
        /\ wt[w].pc = "done" /\ wt[w].lastRead \in {"success", "failed"}
        /\ wt[w].startStatus \in {"created", "pending"}
        /\ notified = {}

\* ------------------------------------------------------------------ C3
IsJobException(outcome, kind, message, o) ==
    /\ outcome.kind = "raise"
    /\ outcome.cls = "JobException"
    /\ Len(outcome.args) = 3
    /\ outcome.args[1] = kind
    /\ outcome.args[2] = message
    /\ outcome.args[3] = o

\* C3: a waiter whose refresh read 'failed' has ended, and did not loop again;
\* with action.error "no client" it raised the NoRatError failure with the fixed
\* message and the job, with "agents exception" the AgentExceptionError failure
\* with action.exception as message and the job.
C3_TypedFailure ==
    \A w \in Waiters : wt[w].lastRead = "failed" =>
        /\ wt[w].pc = "done"
        /\ Stored(w).action.error = "no client" =>
              IsJobException(wt[w].outcome, "NoRatError",
                             "Job failed because the rat was killed", wt[w].job)
        /\ Stored(w).action.error = "agents exception" =>
              IsJobException(wt[w].outcome, "AgentExceptionError",
                             Stored(w).action.exception, wt[w].job)

\* all waiters of the job have raised the AgentExceptionError failure with the
\* message "boom" the handler stored
C3_Witness ==
    /\ \A w \in Waiters :
          IsJobException(wt[w].outcome, "AgentExceptionError", "boom", wt[w].job)
    /\ Stored(1).action.error = "agents exception"

\* the NoRatError case is reached as well
C3_WitnessNoRat ==
    \E w \in Waiters :
        /\ wt[w].lastRead = "failed"
        /\ IsJobException(wt[w].outcome, "NoRatError",
                          "Job failed because the rat was killed", wt[w].job)

\* ------------------------------------------------------------------ C4
\* C4: a wait that started on a created or pending job and returned normally
\* read 'success' in its last refresh, and the instance holds the stored status
\* and action, with the result the external update wrote.
C4_ReturnOnlyOnSuccess ==
    \A w \in Waiters :
        (wt[w].pc = "done" /\ wt[w].startStatus \in NonTerminal
                           /\ wt[w].outcome.kind = "return") =>
            /\ wt[w].lastRead = "success"
            /\ jobs[wt[w].job].status = "success"
            /\ jobs[wt[w].job].status = Stored(w).status
            /\ jobs[wt[w].job].action = Stored(w).action
            /\ Has(jobs[wt[w].job].action, "result")
            /\ jobs[wt[w].job].action.result = "ok"

\* a wait that started on a created job has returned, after a notify, and the
\* instance carries result "ok"
C4_Witness ==
    \E w \in Waiters :
        /\ wt[w].pc = "done" /\ wt[w].startStatus = "created"
        /\ wt[w].outcome = Return(None)
        /\ str(jobs[wt[w].job].id) \in notified
        /\ jobs[wt[w].job].action.result = "ok"

\* ------------------------------------------------------------------ C5
\* C5 (as claimed): a wait called on a job whose status is 'success' or 'failed'
\* returns at once: no event is looked up, nothing is awaited, nothing reloaded.
C5_FastExitBothTerminal ==
    \A w \in Waiters :
        (wt[w].pc # "idle" /\ wt[w].startStatus \in Terminal) =>
            /\ wt[w].pc = "done"
            /\ wt[w].outcome = Return(None)
            /\ wt[w].event = 0
            /\ wt[w].lastRead = ""

\* ------------------------------------------------------------------ C6
InFirstSuspension(w) ==
    wt[w].pc \in {"call_wait", "blocked", "woken", "timedout"} /\ wt[w].lastRead = ""

\* C6: once wakeup_job was called for an id, the registry has an entry for it
\* whose event is set for as long as no waiter has gone through a refresh (the
\* only place a clear follows); and no first suspension of a wait lasts longer
\* than one timeout, so a wait started after the notify re-checks the status no
\* later than one timeout after its start.
C6_NotifyBeforeSubscribe ==
    /\ \A k \in notified :
          /\ k \in DOMAIN job_wakeup_events
          /\ (\A w \in Waiters : wt[w].event = job_wakeup_events[k] => wt[w].lastRead = "")
                => events[job_wakeup_events[k]]
    /\ \A w \in Waiters : InFirstSuspension(w) => now <= wt[w].t0 + Timeout

\* wakeup_job ran before the wait started (not at time 0); the wait is in its
\* first suspension, and the set event has released it at the time it started
C6_Witness ==
    \E w \in Waiters :
        /\ wt[w].presignaled
        /\ wt[w].t0 > 0
        /\ InFirstSuspension(w)
        /\ wt[w].pc = "woken"
        /\ now = wt[w].t0

\* ------------------------------------------------------------------ C7
Unnotified(w) == str(jobs[wt[w].job].id) \notin notified

\* C7: with no notify, a wait re-checks the stored status every Timeout units
\* after its start (t = 10, 20, 30, ... for a start at 0); a status that became
\* 'success' at t = 21 is detected by such a wait at t = 30; and whatever the
\* notifier does, a wait in progress when a terminal status is written has seen
\* it no later than Timeout units after the write.
C7_BoundedDetection ==
    \A w \in Waiters : wt[w].event # 0 =>
        /\ Unnotified(w) =>
              /\ (wt[w].tRead - wt[w].t0) % Timeout = 0
              /\ wt[w].lastRead # "" => wt[w].tRead >= wt[w].t0 + Timeout
              /\ wt[w].pc # "done" => wt[w].deadline = wt[w].tRead + Timeout
        /\ (Unnotified(w) /\ wt[w].t0 = 0 /\ Stored(w).status = "success"
                          /\ Stored(w).wtime = 2 * Timeout + 1) =>
              IF wt[w].pc = "done"
              THEN wt[w].outcome = Return(None) /\ wt[w].tRead = 3 * Timeout
              ELSE now <= 3 * Timeout
        /\ (Stored(w).status \in Terminal /\ Stored(w).wtime >= wt[w].t0) =>
              IF wt[w].pc = "done"
              THEN wt[w].tRead <= Stored(w).wtime + Timeout
              ELSE now <= Stored(w).wtime + Timeout

\* the scenario: start at 0 on a pending job, polls at 10 and 20 saw it pending,
\* 'success' written at 21, no notify, detected by the poll at 30
C7_Witness ==
    \E w \in Waiters :
        /\ wt[w].pc = "done" /\ wt[w].outcome = Return(None) /\ wt[w].tRead = 30
        /\ wt[w].t0 = 0 /\ Unnotified(w)
        /\ wt[w].startStatus = "created" /\ wt[w].lastRead = "success"
        /\ Stored(w).status = "success" /\ Stored(w).wtime = 21

\* ------------------------------------------------------------------ C8
UnrecognizedText == "The action.error field in the job was not recognized: {}"

\* C8: a waiter whose refresh read 'failed' with an action.error other than the
\* two recognised strings raised the generic failure, whose one argument is the
\* message with the action.error string in it; and a wait that ended on a job
\* stored 'failed' ended by the failure that belongs to its action.error.
C8_GenericFailure ==
    \A w \in Waiters :
        /\ (wt[w].lastRead = "failed"
               /\ Stored(w).action.error \notin {"no client", "agents exception"}) =>
              /\ wt[w].pc = "done"
              /\ wt[w].outcome =
                    Raise("JobException", <<<<UnrecognizedText, Stored(w).action.error>>>>)
        /\ (wt[w].pc = "done" /\ Stored(w).status = "failed") =>
              /\ wt[w].outcome.kind = "raise"
              /\ wt[w].outcome.cls = "JobException"
              /\ wt[w].lastRead = "failed"
              /\ Len(wt[w].outcome.args) =
                    IF Stored(w).action.error \in {"no client", "agents exception"}
                    THEN 3 ELSE 1

\* a wait started on a pending job raised the generic failure naming "disk full"
C8_Witness ==
    \E w \in Waiters :
        /\ wt[w].pc = "done" /\ wt[w].startStatus = "pending"
        /\ wt[w].lastRead = "failed"
        /\ Stored(w).action.error = "disk full"
        /\ wt[w].outcome = Raise("JobException", <<<<UnrecognizedText, "disk full">>>>)

\* ------------------------------------------------------------------ C9
Enum == {"created", "pending", "success", "failed"}

\* C9 (as claimed): rat_result on a job whose action has no 'rats' key raises
\* Exception('Getting rat result on non-rat job') and nothing else; on a job
\* with 'rats' (and a status of the enum) it returns a RatCommand with the
\* job's agent, its host and action.rats.parameters.
C9_NotARatJob ==
    view.call = "rat_result" =>
        IF ~Has(view.self.action, "rats")
        THEN view.outcome = Raise("Exception", <<"Getting rat result on non-rat job">>)
        ELSE view.self.status \in Enum =>
                /\ view.outcome.kind = "return"
                /\ view.outcome.value.agent = view.self.agent
                /\ view.outcome.value.host = HostOf(view.self.agent)
                /\ view.outcome.value.parameters = view.self.action.rats.parameters

\* ----------------------------------------------------------------- C10
\* C10: update_rats sets ivc.status to the job's status; with 'success' it sets
\* outputs to action.result, with 'pending', 'created' or 'failed' it leaves
\* outputs as they were, and in these four cases it returns; with any other
\* status it raises CaseException.  Nothing else of ivc changes.
C10_UpdateRats ==
    view.call = "update_rats" =>
        /\ view.ivc.status = view.self.status
        /\ view.ivc = [view.arg EXCEPT !.status = view.ivc.status,
                                       !.outputs = view.ivc.outputs]
        /\ view.self.status = "success" =>
              view.ivc.outputs = view.self.action.result
        /\ view.self.status \in {"pending", "created", "failed"} =>
              view.ivc.outputs = view.arg.outputs
        /\ view.self.status \in Enum => view.outcome = Return(None)
        /\ view.self.status \notin Enum =>
              /\ view.outcome = Raise("CaseException", << >>)
              /\ view.ivc.outputs = view.arg.outputs

\* update_rats ran on a fresh RatCommand for a job that succeeded with "ok"
C10_Witness ==
    /\ view.call = "update_rats"
    /\ view.self.status = "success"
    /\ view.arg = RatCommand
    /\ view.ivc.outputs = "ok"
    /\ view.outcome = Return(None)

\* update_rats ran on a job whose status is outside the enum
C10_WitnessOther ==
    /\ view.call = "update_rats"
    /\ view.self.status = "failure"
    /\ view.outcome.kind = "raise"

\* update_rats ran on a failed job and left the outputs of a used RatCommand
C10_WitnessFailed ==
    /\ view.call = "update_rats"
    /\ view.self.status = "failed"
    /\ view.arg = UsedRatCommand
    /\ view.ivc.outputs = "old"


\* ----------------------------------------------------------------- C11
\* C11: host_command_result returns whatever keys the action has; the view has
\* the job's status and the host of its agent, command_line is
\* action.execute.command_line when both keys are there and '' otherwise, and
\* output is action.result when the status is 'success' and '' otherwise.
C11_HostCommandResult ==
    view.call = "host_command_result" =>
        /\ view.outcome.kind = "return"
        /\ view.outcome.value.status = view.self.status
        /\ view.outcome.value.host = HostOf(view.self.agent)
        /\ view.outcome.value.command_line =
              IF Has(view.self.action, "execute")
                 /\ Has(view.self.action.execute, "command_line")
              THEN view.self.action.execute.command_line ELSE ""
        /\ view.outcome.value.output =
              IF view.self.status = "success" THEN view.self.action.result ELSE ""

\* host_command_result returned for a succeeded job whose action has no
\* 'execute' key: status, host and output are filled, command_line is ''
C11_Witness ==
    /\ view.call = "host_command_result"
    /\ ~Has(view.self.action, "execute")
    /\ view.self.status = "success"
    /\ view.outcome.kind = "return"
    /\ view.outcome.value.command_line = ""
    /\ view.outcome.value.output = "ok"
    /\ view.outcome.value.host = "host2"

\* the same for an 'execute' without 'command_line', on a failed job
C11_WitnessNoCommandLine ==
    /\ view.call = "host_command_result"
    /\ Has(view.self.action, "execute")
    /\ ~Has(view.self.action.execute, "command_line")
    /\ view.self.status = "failed"
    /\ view.outcome.kind = "return"
    /\ view.outcome.value.output = ""

\* ----------------------------------------------------------------- C12
\* C12: a step that builds a result view (host_command_result, rat_result or
\* update_rats, returning or raising) leaves every Job instance, every stored
\* document and the registry with its events as they were.
C12_ExtractionReadOnly ==
    [][view' # view =>
          /\ jobs' = jobs
          /\ db' = db
          /\ job_wakeup_events' = job_wakeup_events
          /\ events' = events]_vars

\* rat_result has raised on a job while the registry holds a set event
C12_Witness ==
    /\ view.call = "rat_result"
    /\ view.outcome.kind = "raise"
    /\ \E k \in DOMAIN job_wakeup_events : events[job_wakeup_events[k]]
    /\ jobs[view.job] = view.self


\* ----------------------------------------------------------------- C13
\* a step of waiter w's own coroutine: its record changes otherwise than by a
\* notifier resolving the future it is blocked on
OwnStep(w) ==
    /\ wt'[w] # wt[w]
    /\ ~(wt[w].pc = "blocked" /\ wt'[w].pc = "woken")

\* C13: every step of a wait_till_completed call that started on a Job instance
\* whose status was 'success' or 'failed' leaves the registry and every event
\* flag as they were: no entry is added, nothing is set, nothing is cleared.
C13_TerminalStartLeavesRegistry ==
    [][\A w \in Waiters :
          (OwnStep(w) /\ wt'[w].startStatus \in Terminal) =>
              /\ job_wakeup_events' = job_wakeup_events
              /\ events' = events]_vars

\* a wait that started on an instance holding 'failed' went through the loop
\* and raised
C13_Witness ==
    \E w \in Waiters :
        /\ wt[w].pc = "done"
        /\ wt[w].startStatus = "failed"
        /\ wt[w].lastRead = "failed"
        /\ wt[w].outcome.kind = "raise"

\* a wait that started on an instance holding 'success' took the fast exit
C13_WitnessSuccess ==
    \E w \in Waiters :
        /\ wt[w].pc = "done"
        /\ wt[w].startStatus = "success"
        /\ wt[w].event = 0


\* ----------------------------------------------------------------- C14
\* the step in which waiter w's coroutine runs again after its await: the
\* reload, the classification and what follows it
Resumes(w) ==
    /\ wt[w].pc \in {"woken", "timedout"}
    /\ wt'[w].pc \in {"call_wait", "done"}

\* C14: an event flag goes from set to unset only in the resumption of a
\* waiter on that event whose reload read a status other than 'success' and
\* 'failed', and that waiter then loops; a resumption that read 'success' or
\* 'failed' clears nothing.  A wait clears nothing before its first reload: the
\* call and the await are not resumptions.
C14_ClearOnlyAfterNonTerminalRead ==
    [][/\ \A e \in 1..Len(events) :
             (events[e] /\ ~events'[e]) =>
                 \E w \in Waiters :
                     /\ Resumes(w)
                     /\ wt[w].event = e
                     /\ wt'[w].lastRead \notin Terminal
                     /\ wt'[w].lastRead = db[jobs[wt[w].job].id.oid].status
                     /\ wt'[w].pc = "call_wait"
       /\ \A w \in Waiters :
             (Resumes(w) /\ wt'[w].lastRead \in Terminal) => events' = events]_vars

\* a waiter read 'failed' and ended, and the flag a notifier had set is still
\* set; the other waiter of the job has not run since
C14_Witness ==
    \E w \in Waiters :
        /\ wt[w].pc = "done"
        /\ wt[w].lastRead = "failed"
        /\ wt[w].startStatus = "pending"
        /\ events[wt[w].event]

\* a waiter woken by a notify read 'pending', cleared the flag and loops
C14_WitnessCleared ==
    \E w \in Waiters :
        /\ wt[w].pc = "call_wait"
        /\ wt[w].lastRead = "pending"
        /\ str(jobs[wt[w].job].id) \in notified
        /\ ~events[wt[w].event]


\* ----------------------------------------------------------------- C15
\* the rendezvous with no timer: "await event.wait()" ends by Event.set() alone
NextNoTimeout ==
    \/ \E o \in Objs : create_rat_command(o)
    \/ \E o \in Objs, n \in Oids : LoadJob(o, n)
    \/ \E id \in {ObjectId(n) : n \in Oids} : WakeupJob(id)
    \/ \E n \in Oids, s \in StatusValues : ExternalUpdate(n, s)
    \/ \E w \in Waiters, o \in Objs : WaitStart(w, o)
    \/ \E w \in Waiters : EventWait(w)
    \/ \E w \in Waiters : Resume(w)

\* the event loop runs every ready task
FairnessNoTimeout ==
    \A w \in Waiters : WF_vars(EventWait(w)) /\ WF_vars(Resume(w))

SpecNoTimeout == Init /\ [][NextNoTimeout]_vars /\ FairnessNoTimeout

\* the key of the job waiter w waits on
KeyOf(w) == str(jobs[wt[w].job].id)

\* C15: once the handler has stored 'success' or 'failed' and then called
\* wakeup_job, the job's event is registered and set in every later state; a
\* waiter of that job that runs again after its await ends in that very
\* resumption; and every wait on the job that is or comes in progress ends,
\* with no timer in the system.
C15_NoLostWakeup ==
    /\ [](\A k \in latched :
             k \in DOMAIN job_wakeup_events /\ events[job_wakeup_events[k]])
    /\ [][\A w \in Waiters :
             (Resumes(w) /\ KeyOf(w) \in latched) => wt'[w].pc = "done"]_vars
    /\ \A w \in Waiters :
          (wt[w].pc \notin {"idle", "done"} /\ KeyOf(w) \in latched)
              ~> (wt[w].pc = "done")

\* with no timer: the first waiter had looped on 'pending' and was released by
\* the notify that followed the terminal write; the second started after that
\* notify; both have ended on 'success' and the flag is still set
C15_Witness ==
    /\ "1" \in latched
    /\ events[job_wakeup_events["1"]]
    /\ wt[1].pc = "done" /\ wt[1].startStatus = "created" /\ wt[1].lastRead = "success"
    /\ wt[2].pc = "done" /\ wt[2].startStatus = "pending" /\ wt[2].lastRead = "success"


\* ----------------------------------------------------------------- C16
\* what a caller can tell of an outcome: return, or the exception's class with
\* its kind and message (the Job instance in a JobException is the caller's own)
Classification(outcome) ==
    IF outcome.kind = "raise"
    THEN IF Len(outcome.args) = 3
         THEN <<"raise", outcome.cls, outcome.args[1], outcome.args[2]>>
         ELSE <<"raise", outcome.cls, outcome.args>>
    ELSE <<outcome.kind>>

\* the ended waits on the job waiter w waits on agree with w's outcome
AgreesWithEnded(w) ==
    \A v \in Waiters :
        (wt[v].pc = "done" /\ KeyOf(v) = KeyOf(w)) =>
            Classification(wt[v].outcome) = Classification(wt[w].outcome)

\* C16: the waiters of one job id hold the one event registered under that id;
\* whatever the others clear, a wait in progress on a job stored 'success' or
\* 'failed' ends; and the ended waits on such a job all returned, or all raised
\* the same exception with the same kind and message.
C16_SharedSignalNoStarvation ==
    /\ [](\A w \in Waiters :
             wt[w].event # 0 =>
                 /\ KeyOf(w) \in DOMAIN job_wakeup_events
                 /\ wt[w].event = job_wakeup_events[KeyOf(w)])
    /\ [](\A w \in Waiters :
             (wt[w].pc = "done" /\ Stored(w).status \in Terminal) => AgreesWithEnded(w))
    /\ \A w \in Waiters :
          (wt[w].pc \notin {"idle", "done"} /\ Stored(w).status \in Terminal)
              ~> (wt[w].pc = "done" /\ AgreesWithEnded(w))

\* two waits on two instances of the same job, both started before the job
\* failed, share the event and have raised the same NoRatError failure
C16_Witness ==
    /\ wt[1].pc = "done" /\ wt[2].pc = "done"
    /\ wt[1].job # wt[2].job
    /\ wt[1].event = wt[2].event
    /\ wt[1].startStatus \in NonTerminal /\ wt[2].startStatus \in NonTerminal
    /\ Classification(wt[1].outcome) =
          <<"raise", "JobException", "NoRatError", "Job failed because the rat was killed">>
    /\ Classification(wt[2].outcome) = Classification(wt[1].outcome)

\* one waiter has cleared the flag after reading 'pending' while the other,
\* released by the same notify, has still to run: it is not held back
C16_WitnessCleared ==
    /\ wt[1].pc = "call_wait" /\ wt[1].lastRead = "pending"
    /\ wt[2].pc = "woken" /\ wt[2].event = wt[1].event
    /\ ~events[wt[2].event]


\* ----------------------------------------------------------------- C17
\* C17: a wait that has ended is not on a job stored 'created' or 'pending'; a
\* wait that raised read 'failed' in its last reload and raised a JobException;
\* and a waiter that runs again, after a timeout or a notify, while the stored
\* status is 'created' or 'pending' goes back to the await with no outcome.
C17_TimeoutIsNotAnError ==
    /\ [](\A w \in Waiters :
             wt[w].pc = "done" =>
                 /\ Stored(w).status \notin NonTerminal
                 /\ wt[w].outcome.kind = "raise" =>
                       /\ wt[w].lastRead = "failed"
                       /\ wt[w].outcome.cls = "JobException")
    /\ [][\A w \in Waiters :
             (Resumes(w) /\ db[jobs[wt[w].job].id.oid].status \in NonTerminal) =>
                 /\ wt'[w].pc = "call_wait"
                 /\ wt'[w].outcome = NoOutcome]_vars

\* nobody has notified the job: the waiter timed out, read 'created', went back
\* to the await and timed out again, and the call is still in progress
C17_Witness ==
    \E w \in Waiters :
        /\ wt[w].pc = "timedout"
        /\ wt[w].lastRead = "created"
        /\ Unnotified(w)
        /\ Stored(w).status = "pending"
        /\ wt[w].outcome = NoOutcome

\* a spurious notify: the waiter was released while the job is stored 'pending',
\* read 'pending' and waits again
C17_WitnessSpurious ==
    \E w \in Waiters :
        /\ wt[w].pc = "blocked"
        /\ wt[w].lastRead = "pending"
        /\ ~Unnotified(w)
        /\ wt[w].outcome = NoOutcome


\* ----------------------------------------------------------------- C18
\* a step in which wakeup_job was called and changed something: a key is
\* notified for the first time (or for the first time since its job ended), or
\* a flag goes from unset (or not there) to set
WakeupStep ==
    \/ notified' # notified
    \/ latched' # latched
    \/ \E e \in DOMAIN events' : events'[e] /\ (e \in DOMAIN events => ~events[e])

\* the call wakeup_job for key k, from this state to the next
WakeupOf(k) ==
    /\ k \in notified'
    /\ k \in DOMAIN job_wakeup_events'
    /\ DOMAIN job_wakeup_events' = DOMAIN job_wakeup_events \cup {k}
    /\ \A j \in DOMAIN job_wakeup_events : job_wakeup_events'[j] = job_wakeup_events[j]
    /\ Len(events') = Len(events) + (IF k \in DOMAIN job_wakeup_events THEN 0 ELSE 1)
    /\ events'[job_wakeup_events'[k]]
    /\ \A e \in DOMAIN events : e # job_wakeup_events'[k] => events'[e] = events[e]
    /\ db' = db
    /\ jobs' = jobs
    /\ \A w \in Waiters :
          wt'[w] = IF wt[w].pc = "blocked" /\ wt[w].event = job_wakeup_events'[k]
                   THEN [wt[w] EXCEPT !.pc = "woken"] ELSE wt[w]

\* C18: wakeup_job(job_id) takes the event registered under str(job_id), or
\* registers a new one, and sets it; every waiter blocked on it is released; no
\* other entry, no other flag, no Job instance and no stored document changes.
\* A set flag stays set until the resumption of a waiter on that event clears
\* it, and a waiter that reaches event.wait() while it is set is released at
\* once: no waiter is ever blocked on a set event.
C18_WakeupSetsOneSignal ==
    /\ [][WakeupStep => \E k \in notified' : WakeupOf(k)]_vars
    /\ [][\A e \in DOMAIN events :
             (events[e] /\ ~events'[e]) =>
                 \E w \in Waiters : Resumes(w) /\ wt[w].event = e]_vars
    /\ [][\A w \in Waiters :
             (wt[w].pc = "call_wait" /\ wt'[w].pc \in {"blocked", "woken"}) =>
                 wt'[w].pc = IF events[wt[w].event] THEN "woken" ELSE "blocked"]_vars
    /\ [](\A w \in Waiters : wt[w].pc = "blocked" => ~events[wt[w].event])
    /\ [](\A k \in notified : k \in DOMAIN job_wakeup_events)

\* wakeup_job("2") registered and set an event for an id no job has, while a
\* waiter stays blocked on the unset event of job "1"
C18_Witness ==
    /\ "2" \in notified /\ "1" \notin notified
    /\ "2" \in DOMAIN job_wakeup_events /\ "1" \in DOMAIN job_wakeup_events
    /\ events[job_wakeup_events["2"]]
    /\ ~events[job_wakeup_events["1"]]
    /\ \E w \in Waiters : wt[w].pc = "blocked" /\ wt[w].event = job_wakeup_events["1"]

\* a waiter that started after the notify found the flag set and was released
\* at once, the job still stored 'created'
C18_WitnessLater ==
    \E w \in Waiters :
        /\ wt[w].pc = "woken"
        /\ wt[w].presignaled
        /\ wt[w].lastRead = ""
        /\ events[wt[w].event]
        /\ Stored(w).status = "created"


\* ----------------------------------------------------------------- C19
\* C19: in every resumption of a waiter the instance takes the status and the
\* action stored at that moment, whatever it held before, and the step decides
\* on them alone: stored 'success' returns, stored 'failed' raises with the
\* stored error, anything else clears the flag and awaits again.
C19_DecidesOnFreshRead ==
    [][\A w \in Waiters :
          Resumes(w) =>
              LET o == wt[w].job
                  doc == db[jobs[o].id.oid]
              IN /\ jobs'[o].status = doc.status
                 /\ jobs'[o].action = doc.action
                 /\ wt'[w].lastRead = doc.status
                 /\ doc.status = "success" =>
                       /\ wt'[w].pc = "done"
                       /\ wt'[w].outcome = Return(None)
                       /\ events' = events
                 /\ doc.status = "failed" =>
                       /\ wt'[w].pc = "done"
                       /\ wt'[w].outcome.kind = "raise"
                       /\ wt'[w].outcome.cls = "JobException"
                       /\ wt'[w].outcome.args =
                             CASE doc.action.error = "no client" ->
                                    <<"NoRatError", "Job failed because the rat was killed", o>>
                               [] doc.action.error = "agents exception" ->
                                    <<"AgentExceptionError", doc.action.exception, o>>
                               [] OTHER ->
                                    <<Format(UnrecognizedText, doc.action.error)>>
                       /\ events' = events
                 /\ doc.status \notin Terminal =>
                       /\ wt'[w].pc = "call_wait"
                       /\ wt'[w].outcome = NoOutcome
                       /\ events' = EventClear(events, wt[w].event)]_vars

\* a waiter is about to run again on an instance that still holds 'created' and
\* the action it was made with, while 'failed' and an error are stored
C19_WitnessStale ==
    \E w \in Waiters :
        /\ wt[w].pc \in {"woken", "timedout"}
        /\ jobs[wt[w].job].status = "created"
        /\ Stored(w).status = "failed"
        /\ jobs[wt[w].job].action # Stored(w).action

\* a wait that started on 'created' and read 'pending' in an earlier iteration
\* has ended on the 'failed' and the unrecognised error of its last reload
C19_Witness ==
    \E w \in Waiters :
        /\ wt[w].pc = "done"
        /\ wt[w].startStatus = "created"
        /\ wt[w].lastRead = "failed"
        /\ jobs[wt[w].job].status = "failed"
        /\ jobs[wt[w].job].action = Stored(w).action
        /\ wt[w].outcome = Raise("JobException", <<Format(UnrecognizedText, "disk full")>>)


\* ----------------------------------------------------------------- C20
\* the rendezvous with callers that may cancel a wait
NextAbandon ==
    \/ Next
    \/ \E w \in Waiters : Abandon(w)

SpecAbandon == Init /\ [][NextAbandon]_vars

\* C20: in every step every key of job_wakeup_events stays, with the event it
\* had, and no event leaves the heap: construction, _get_job_event, wakeup_job
\* and a wait that returns, raises or is cancelled only ever add entries.
C20_RegistryOnlyGrows ==
    [][/\ \A k \in DOMAIN job_wakeup_events :
             /\ k \in DOMAIN job_wakeup_events'
             /\ job_wakeup_events'[k] = job_wakeup_events[k]
       /\ DOMAIN events \subseteq DOMAIN events']_vars

\* one wait on the job was cancelled and another has ended; the keys "None",
\* of the construction, and "1" are registered, "1" with the event both used
C20_Witness ==
    /\ \E w \in Waiters : wt[w].pc = "cancelled" /\ wt[w].outcome.cls = "CancelledError"
    /\ \E w \in Waiters : wt[w].pc = "done"
    /\ {"None", "1"} \subseteq DOMAIN job_wakeup_events
    /\ \A w \in Waiters : wt[w].event = job_wakeup_events["1"]


\* ----------------------------------------------------------------- C21
\* the jobs of an operation, the handler that completes them, and the delete
NextDelete ==
    \/ \E o \in Objs : create_rat_command(o)
    \/ \E n \in Oids, s \in StatusValues : HandlerUpdate(n, s)
    \/ OperationCreate
    \/ \E o \in Objs : OperationAddJob(o)
    \/ OperationLoad
    \/ OperationJobs
    \/ \E n \in Oids : JobDelete(n)
    \/ LogDelete
    \/ OperationDelete

SpecDelete == Init /\ [][NextDelete]_vars

\* the step in which Operation.delete() runs
DeleteStep == operation.outcome = NoOutcome /\ operation'.outcome # NoOutcome

\* C21 (as claimed): Operation.delete removes only documents of jobs it
\* references whose stored status is 'success' or 'failed', leaves every job
\* stored 'created' or 'pending' in the collection, and returns with the
\* operation deleted also when a job it references is no longer stored.
C21_DeleteToleratesMissingJob ==
    [][DeleteStep =>
          /\ \A n \in removed' \ removed : n \in Referred /\ db[n].status \in Terminal
          /\ \A n \in DOMAIN db \ removed : db[n].status \in NonTerminal => n \notin removed'
          /\ operation'.outcome = Return(None)
          /\ operation'.state = "deleted"]_vars

\* what does hold: the two statements about the status; a log already gone is
\* tolerated; and the call fails exactly when the list, dereferenced in the
\* call or before it, has an item whose document was gone by then
C21_DeletesOnlyTerminal ==
    [][DeleteStep =>
          /\ \A n \in removed' \ removed : n \in Referred /\ db[n].status \in Terminal
          /\ \A n \in DOMAIN db \ removed : db[n].status \in NonTerminal => n \notin removed'
          /\ operation'.log = "gone"
          /\ (operation'.outcome = Return(None)) = (operation'.state = "deleted")
          /\ (operation'.outcome # Return(None)) =
                (\E i \in DOMAIN operation.jobs :
                    \/ operation.jobs[i].held = "dbref"
                    \/ operation.jobs[i].held = "ref" /\ operation.jobs[i].oid \in removed)]_vars

\* delete() raised AttributeError on the reference to a job that is gone, and
\* the operation is still stored
C21_Witness ==
    /\ operation.outcome = Raise("AttributeError", <<"status">>)
    /\ operation.state = "stored"
    /\ Referred \subseteq removed

\* delete() removed the operation and its job, which was stored 'failed'
C21_WitnessDeleted ==
    /\ operation.state = "deleted"
    /\ \E i \in DOMAIN operation.jobs :
          /\ operation.jobs[i].held = "failed"
          /\ operation.jobs[i].oid \in removed

\* delete() removed the operation and left its pending job in the collection
C21_WitnessKept ==
    /\ operation.state = "deleted"
    /\ \E i \in DOMAIN operation.jobs :
          /\ operation.jobs[i].oid \notin removed
          /\ db[operation.jobs[i].oid].status = "pending"

\* delete() returned although the job was gone: the list held the Job instance
C21_WitnessInstanceOfMissing ==
    /\ operation.state = "deleted"
    /\ \E i \in DOMAIN operation.jobs :
          /\ operation.jobs[i].held = "created"
          /\ operation.jobs[i].oid \in removed

====
